---------------------------- MODULE Spec2Model ----------------------------
(***************************************************************************)
(* zmqc (lib/zmqc.py): a command-line filter that bridges standard input   *)
(* and output to one ZeroMQ socket.  The model follows main() step by      *)
(* step: argument validation, socket creation, option translation and      *)
(* application, bind/connect, the message-exchange loop with its blocking  *)
(* points, and the closing of the socket.  Text is a sequence of           *)
(* characters; the delimiter characters are LF ('\n') and NUL ('\x00').    *)
(***************************************************************************)
EXTENDS Integers, Sequences, FiniteSets, TLC

VARIABLES
    args,         \* the parsed command line (argparse namespace), fixed
    env,          \* the surroundings: content of stdin, messages the peer sends
    pc,           \* position of the process in main() and the loops
    sock,         \* the socket: state, options set, endpoints, close count
    sock_opts,    \* result of get_sockopts (main's local)
    idx,          \* position in the for loops over sock_opts / addresses
    iterator,     \* itertools.repeat(None[, number]): remaining items
    message,      \* local `message` of read() / write()
    stdin,        \* unread rest of standard input
    stdout,       \* characters written and flushed to standard output
    inq,          \* messages waiting on the socket for sock.recv()
    delivered,    \* how many of the peer's messages have reached the socket
    recvd,        \* messages returned by sock.recv(), in order
    sent,         \* messages passed to sock.send(), in order
    cause,        \* the event that ended the normal path ("none" while none has)
    exc,          \* the exception propagating out of the loop ("None" if none)
    exit_status   \* process exit status, -1 while running

vars == <<args, env, pc, sock, sock_opts, idx, iterator, message, stdin,
          stdout, inq, delivered, recvd, sent, cause, exc, exit_status>>

---------------------------------------------------------------------------
(* Bounds of the model. *)

\* longest list of -o options
MaxOpts == 2
\* most messages the peer sends
MaxMsgs == 2
\* longest standard input, in characters
MaxIn == 3
\* largest -n NUM
MaxNum == 2

---------------------------------------------------------------------------
(* Generic helpers. *)

SeqsUpTo(S, n) == UNION {[1..k -> S] : k \in 0..n}

RECURSIVE Concat(_)
Concat(ss) == IF ss = <<>> THEN <<>> ELSE Head(ss) \o Concat(Tail(ss))

IsPrefix(p, s) == Len(p) <= Len(s) /\ SubSeq(s, 1, Len(p)) = p

---------------------------------------------------------------------------
(* The command line. *)

LF == "LF"
NUL == "NUL"

SockTypes == {"PUSH", "PULL", "PUB", "SUB", "REQ", "REP", "PAIR"}
Modes == {"None", "r", "w"}
Behaviors == {"None", "bind", "connect"}

\* args.number: <<>> is None, <<k>> is the integer k
NoNumber == <<>>

---------------------------------------------------------------------------
(* Option translator: get_sockopts.                                        *)
(* An option string is a sequence of tokens.  A token is "=", a character  *)
(* of a value, or a run of name characters: the prefix "ZMQ_" is always a  *)
(* token of its own, so that startswith('ZMQ_') is a test of the first     *)
(* token.                                                                  *)

\* runs of characters of the class [A-Z_]
UpperTokens == {"ZMQ_", "SUBSCRIBE", "LINGER", "XREP", "SUB", "NOPE"}

\* zmq.core.constants: the names this model knows and their numbers.
\* XREP and SUB are socket-type constants, not option names.
constants == [SUBSCRIBE |-> 6, LINGER |-> 17, XREP |-> 6, SUB |-> 2]

\* zmq.SUBSCRIBE and zmq.SUB
SUBSCRIBE == constants["SUBSCRIBE"]
SUB == constants["SUB"]

\* zmq.core.constants.int_sockopts + int64_sockopts, bytes_sockopts
int_sockopts == {1, 17}
bytes_sockopts == {5, 6, 7}

Digits == {"0", "1", "2", "3", "4", "5", "6", "7", "8", "9"}
DigitVal(c) == CASE c = "0" -> 0 [] c = "1" -> 1 [] c = "2" -> 2 [] c = "3" -> 3
                 [] c = "4" -> 4 [] c = "5" -> 5 [] c = "6" -> 6 [] c = "7" -> 7
                 [] c = "8" -> 8 [] c = "9" -> 9

\* str.strip() of blanks at both ends, as int() does before parsing
RECURSIVE LStrip(_)
LStrip(v) == IF v # <<>> /\ Head(v) = " " THEN LStrip(Tail(v)) ELSE v
RECURSIVE RStrip(_)
RStrip(v) == IF v # <<>> /\ v[Len(v)] = " " THEN RStrip(SubSeq(v, 1, Len(v) - 1)) ELSE v

RECURSIVE DigitsValue(_, _)
DigitsValue(ds, acc) ==
    IF ds = <<>> THEN acc ELSE DigitsValue(Tail(ds), 10 * acc + DigitVal(Head(ds)))

\* faulty variant: a sign is not accepted
int_Unsigned(text) ==
    LET t == RStrip(LStrip(text))
    IN  IF t # <<>> /\ \A i \in 1..Len(t) : t[i] \in Digits
        THEN [ok |-> TRUE, val |-> DigitsValue(t, 0)]
        ELSE [ok |-> FALSE, val |-> 0]

\* int(text): [ok, val]; ok = FALSE stands for ValueError
int(text) ==
    LET t == RStrip(LStrip(text))
        signed == t # <<>> /\ Head(t) \in {"+", "-"}
        ds == IF signed THEN Tail(t) ELSE t
    IN  IF ds # <<>> /\ \A i \in 1..Len(ds) : ds[i] \in Digits
        THEN [ok |-> TRUE,
              val |-> IF signed /\ Head(t) = "-" THEN 0 - DigitsValue(ds, 0)
                      ELSE DigitsValue(ds, 0)]
        ELSE [ok |-> FALSE, val |-> 0]

\* position of the first "=" of an option string, 0 when there is none
RECURSIVE FirstEq(_, _)
FirstEq(option, i) ==
    IF i > Len(option) THEN 0
    ELSE IF option[i] = "=" THEN i ELSE FirstEq(option, i + 1)

\* re.match(r'^([A-Z_]+)\=(.*)$', option): [matched, name, value]
ReMatch(option) ==
    LET e == FirstEq(option, 1)
        name == SubSeq(option, 1, e - 1)
    IN  IF e > 1 /\ \A i \in 1..Len(name) : name[i] \in UpperTokens
        THEN [matched |-> TRUE, name |-> name,
              value |-> SubSeq(option, e + 1, Len(option))]
        ELSE [matched |-> FALSE, name |-> <<>>, value |-> <<>>]

\* faulty variant: the prefix is not removed
StripPrefix_Never(name) == name

\* opt_name with one leading 'ZMQ_' removed (lines 239-240)
StripPrefix(name) ==
    IF name # <<>> /\ Head(name) = "ZMQ_" THEN Tail(name) ELSE name

\* getattr(zmq.core.constants, opt_name.upper()): 0 stands for AttributeError
Resolve(opt_name) ==
    IF Len(opt_name) = 1 /\ opt_name[1] \in DOMAIN constants
    THEN constants[opt_name[1]] ELSE 0

\* the value after the converter of option_coerce chosen by the code
Coerce(opt_code, opt_value) ==
    IF opt_code \in int_sockopts
    THEN LET r == int(opt_value)
         IN  [ok |-> r.ok, value |-> [type |-> "int", int |-> r.val, str |-> <<>>]]
    ELSE [ok |-> TRUE, value |-> [type |-> "str", int |-> 0, str |-> opt_value]]

\* one pass of the loop body of get_sockopts: [error, option]
TranslateOne(option) ==
    LET m == ReMatch(option)
        opt_code == Resolve(StripPrefix(m.name))
        c == Coerce(opt_code, m.value)
        none == [code |-> 0, value |-> [type |-> "str", int |-> 0, str |-> <<>>]]
    IN  IF ~m.matched THEN [error |-> "Invalid option spec", option |-> none]
        ELSE IF opt_code = 0
        THEN [error |-> "Unrecognised socket option", option |-> none]
        ELSE IF ~c.ok THEN [error |-> "Invalid value for option", option |-> none]
        ELSE [error |-> "", option |-> [code |-> opt_code, value |-> c.value]]

\* get_sockopts(sock_opts): [error, options]; error # "" stands for ParserError
RECURSIVE get_sockopts_from(_, _)
get_sockopts_from(opts, options) ==
    IF opts = <<>> THEN [error |-> "", options |-> options]
    ELSE LET r == TranslateOne(Head(opts))
         IN  IF r.error # "" THEN [error |-> r.error, options |-> <<>>]
             ELSE get_sockopts_from(Tail(opts), Append(options, r.option))

\* faulty variant: the options in front of an invalid one are returned
RECURSIVE get_sockopts_UpToError(_, _)
get_sockopts_UpToError(opts, options) ==
    IF opts = <<>> \/ TranslateOne(Head(opts)).error # ""
    THEN [error |-> "", options |-> options]
    ELSE get_sockopts_UpToError(Tail(opts),
                                Append(options, TranslateOne(Head(opts)).option))
get_sockopts_ValidPrefix(opts) == get_sockopts_UpToError(opts, <<>>)

get_sockopts(opts) == get_sockopts_from(opts, <<>>)

---------------------------------------------------------------------------
(* Framing: read_until_delimiter and the text read() writes. *)

\* the while loop of read_until_delimiter: [c, output, rest]; c = "" at EOF
RECURSIVE ReadChars(_, _, _)
ReadChars(stream, delimiter, output) ==
    IF stream = <<>> THEN [c |-> "", output |-> output, rest |-> <<>>]
    ELSE IF Head(stream) = delimiter
    THEN [c |-> Head(stream), output |-> output, rest |-> Tail(stream)]
    ELSE ReadChars(Tail(stream), delimiter, Append(output, Head(stream)))

\* faulty variant: an empty record is taken for the end of the stream
read_until_delimiter_EmptyIsEof(stream, delimiter) ==
    LET r == ReadChars(stream, delimiter, <<>>)
    IN  [eof |-> r.output = <<>>, output |-> r.output, rest |-> r.rest]

\* read_until_delimiter(stream, delimiter): [eof, output, rest]
read_until_delimiter(stream, delimiter) ==
    LET r == ReadChars(stream, delimiter, <<>>)
    IN  [eof |-> r.c = "" /\ r.output = <<>>, output |-> r.output, rest |-> r.rest]

\* faulty variant: the delimiter is not written
Framed_NoDelimiter(msg, delimiter) == msg

\* faulty variant: the delimiter is written twice
Framed_Doubled(msg, delimiter) == Append(Append(msg, delimiter), delimiter)

\* message + delimiter (line 364)
Framed(msg, delimiter) == Append(msg, delimiter)

\* what read_loop writes for the messages msgs when nothing fails: read()
\* once per message
RECURSIVE read_loop_output(_, _)
read_loop_output(msgs, delimiter) ==
    IF msgs = <<>> THEN <<>>
    ELSE Framed(Head(msgs), delimiter) \o read_loop_output(Tail(msgs), delimiter)

\* what write_loop sends for the text stream when nothing fails: write()
\* until read_until_delimiter raises EOFError
RECURSIVE write_loop_sends(_, _)
write_loop_sends(stream, delimiter) ==
    LET r == read_until_delimiter(stream, delimiter)
    IN  IF r.eof THEN <<>>
        ELSE <<r.output>> \o write_loop_sends(r.rest, delimiter)

---------------------------------------------------------------------------
(* Inputs of the model: command lines and surroundings. *)

\* option strings given with -o
OptUniverse ==
    { <<"SUBSCRIBE", "=", "a">>,
      <<"SUBSCRIBE", "=">>,
      <<"ZMQ_", "SUBSCRIBE", "=", "b">>,
      <<"XREP", "=", "a">>,
      <<"SUB", "=", "a">>,
      <<"LINGER", "=", "-", "1">>,
      <<"LINGER", "=", "x">>,
      <<"NOPE", "=", "a">>,
      <<"LINGER">> }

\* the -o options of the runs that exercise subscriptions
SubscribeOpts ==
    { <<"SUBSCRIBE", "=", "a">>, <<"SUBSCRIBE", "=">>, <<"ZMQ_", "SUBSCRIBE", "=", "b">> }

Addresses == {<<"tcp://a">>, <<"tcp://a", "tcp://b">>}

\* messages a peer may send
Msgs == {<<>>, <<"a">>, <<"b">>, <<"a", "b">>}

UsesInput(sock_type, mode) == sock_type \in {"REQ", "REP"} \/ mode = "w"
UsesOutput(sock_type, mode) == sock_type \in {"REQ", "REP"} \/ mode = "r"

NoSurroundings == [stdin |-> <<>>, published |-> <<>>]

\* every combination of type, mode and behavior, with at most one option
MatrixRuns ==
    { [args |-> [sock_type |-> t, mode |-> m, behavior |-> b, delimiter |-> LF,
                 number |-> NoNumber, sock_opts |-> o, addresses |-> a],
       env |-> NoSurroundings] :
      t \in SockTypes, m \in Modes, b \in Behaviors,
      o \in SeqsUpTo(OptUniverse, 1), a \in Addresses }

\* the mode a socket type is commonly run in
UsualMode(t) ==
    IF t \in {"REQ", "REP"} THEN "None" ELSE IF t \in {"SUB", "PULL"} THEN "r" ELSE "w"

\* every socket type with every short option list
OptionRuns ==
    { [args |-> [sock_type |-> t, mode |-> UsualMode(t), behavior |-> "connect",
                 delimiter |-> LF, number |-> NoNumber, sock_opts |-> o,
                 addresses |-> <<"tcp://a">>],
       env |-> NoSurroundings] :
      t \in SockTypes, o \in SeqsUpTo(OptUniverse, MaxOpts) }

ConfigRuns == MatrixRuns \cup OptionRuns

\* command lines that reach the loop: every -n and delimiter; subscribe
\* options on SUB sockets only, there with the default delimiter and no -n
ExchangeArgs ==
    { x \in
        { [sock_type |-> t, mode |-> m, behavior |-> "connect", delimiter |-> d,
           number |-> n, sock_opts |-> o, addresses |-> <<"tcp://a">>] :
          t \in SockTypes, m \in Modes, d \in {LF, NUL},
          n \in {NoNumber} \cup {<<k>> : k \in 0..MaxNum},
          o \in SeqsUpTo(SubscribeOpts, MaxOpts) } :
        /\ x.mode = "None" <=> x.sock_type \in {"REQ", "REP"}
        /\ <<x.sock_type, x.mode>> \notin {<<"SUB", "w">>, <<"PUB", "r">>}
        /\ x.sock_opts # <<>>
           => /\ x.sock_type = "SUB"
              /\ x.delimiter = LF
              /\ x.number = NoNumber }

ExchangeStdin(a) ==
    IF ~UsesInput(a.sock_type, a.mode) THEN {<<>>}
    ELSE IF a.sock_type \in {"REQ", "REP"}
    THEN SeqsUpTo({"a", a.delimiter}, MaxIn)
    ELSE SeqsUpTo({"a", LF, NUL}, MaxIn)

\* k messages of a peer of a REQ or REP socket: a, b, a, ...
PeerTalk(k) == [i \in 1..k |-> IF i % 2 = 1 THEN <<"a">> ELSE <<"b">>]

ExchangePublished(a) ==
    IF ~UsesOutput(a.sock_type, a.mode) THEN {<<>>}
    ELSE IF a.sock_type \in {"REQ", "REP"}
    THEN {PeerTalk(k) : k \in 0..MaxMsgs}
    ELSE SeqsUpTo(Msgs, MaxMsgs)

\* accepted command lines with every short standard input and peer
ExchangeRuns ==
    UNION { { [args |-> a, env |-> [stdin |-> i, published |-> p]] :
              i \in ExchangeStdin(a), p \in ExchangePublished(a) } :
            a \in ExchangeArgs }

\* messages that contain the newline character
FramingMsgs == {<<LF>>, <<"a", LF, "b">>}

\* read-mode runs whose peer sends such messages, with either delimiter
FramingRuns ==
    { [args |-> [sock_type |-> "PULL", mode |-> "r", behavior |-> "connect",
                 delimiter |-> d, number |-> NoNumber, sock_opts |-> <<>>,
                 addresses |-> <<"tcp://a">>],
       env |-> [stdin |-> <<>>, published |-> p]] :
      d \in {LF, NUL}, p \in SeqsUpTo(FramingMsgs, MaxMsgs) }

---------------------------------------------------------------------------
(* main(): validation, socket creation, configuration. *)

\* faulty variant: the check of PUB against read mode is missing
UsageError_NoPubCheck(a) ==
    IF a.sock_type = "SUB" /\ a.mode = "w" THEN "Cannot write to a SUB socket"
    ELSE IF a.mode # "None" /\ a.sock_type \in {"REQ", "REP"}
    THEN "Cannot choose a read/write mode"
    ELSE IF a.mode = "None" /\ a.sock_type \notin {"REQ", "REP"}
    THEN "one of the arguments -r/--read -w/--write is required"
    ELSE IF a.behavior = "None"
    THEN "one of the arguments -b/--bind -c/--connect is required"
    ELSE ""

\* the message of the parser.error call that lines 265-279 reach, "" if none
UsageError(a) ==
    IF a.sock_type = "SUB" /\ a.mode = "w" THEN "Cannot write to a SUB socket"
    ELSE IF a.sock_type = "PUB" /\ a.mode = "r" THEN "Cannot read from a PUB socket"
    ELSE IF a.mode # "None" /\ a.sock_type \in {"REQ", "REP"}
    THEN "Cannot choose a read/write mode"
    ELSE IF a.mode = "None" /\ a.sock_type \notin {"REQ", "REP"}
    THEN "one of the arguments -r/--read -w/--write is required"
    ELSE IF a.behavior = "None"
    THEN "one of the arguments -b/--bind -c/--connect is required"
    ELSE ""

\* getattr(zmq, args.sock_type): the socket-type numbers of zmq
SocketTypeCode(t) ==
    CASE t = "PAIR" -> 0 [] t = "PUB" -> 1 [] t = "SUB" -> SUB [] t = "REQ" -> 3
      [] t = "REP" -> 4 [] t = "PULL" -> 7 [] t = "PUSH" -> 8

\* faulty variant: every SUB socket is subscribed to everything
NeedsImplicitSubscribe_Always(socket_type, opts) == socket_type = SUB

\* the condition of lines 295-297
NeedsImplicitSubscribe(socket_type, opts) ==
    /\ socket_type = SUB
    /\ ~\E i \in 1..Len(opts) : opts[i].code = SUBSCRIBE

EmptyValue == [type |-> "str", int |-> 0, str |-> <<>>]

NoSocket ==
    [state |-> "none", socket_type |-> -1, options |-> <<>>, endpoints |-> <<>>,
     closes |-> 0]

Init ==
    /\ \E r \in ConfigRuns \cup ExchangeRuns \cup FramingRuns :
          args = r.args /\ env = r.env
    /\ pc = "main"
    /\ sock = NoSocket
    /\ sock_opts = <<>>
    /\ idx = 0
    /\ iterator = [bounded |-> FALSE, left |-> 0]
    /\ message = <<>>
    /\ stdin = env.stdin
    /\ stdout = <<>>
    /\ inq = <<>>
    /\ delivered = 0
    /\ recvd = <<>>
    /\ sent = <<>>
    /\ cause = "none"
    /\ exc = "None"
    /\ exit_status = -1

\* parser.error(...): usage message, SystemExit(2)
ParserError ==
    /\ pc' = "exit"
    /\ cause' = "usage"
    /\ exc' = "SystemExit"
    /\ exit_status' = 2

\* lines 261-279: a validation rule fails
Reject ==
    /\ pc = "main"
    /\ UsageError(args) # ""
    /\ ParserError
    /\ UNCHANGED <<args, env, sock, sock_opts, idx, iterator, message, stdin,
                   stdout, inq, delivered, recvd, sent>>

\* lines 261-282: validation passes and the socket is created
CreateSocket ==
    /\ pc = "main"
    /\ UsageError(args) = ""
    /\ sock' = [NoSocket EXCEPT !.state = "open",
                                !.socket_type = SocketTypeCode(args.sock_type)]
    /\ pc' = "get_sockopts"
    /\ UNCHANGED <<args, env, sock_opts, idx, iterator, message, stdin, stdout,
                   inq, delivered, recvd, sent, cause, exc, exit_status>>

\* lines 285-288: get_sockopts raises ParserError
SockoptsError ==
    /\ pc = "get_sockopts"
    /\ get_sockopts(args.sock_opts).error # ""
    /\ ParserError
    /\ UNCHANGED <<args, env, sock, sock_opts, idx, iterator, message, stdin,
                   stdout, inq, delivered, recvd, sent>>

\* lines 285-289: get_sockopts returns the list
SockoptsOk ==
    /\ pc = "get_sockopts"
    /\ get_sockopts(args.sock_opts).error = ""
    /\ sock_opts' = get_sockopts(args.sock_opts).options
    /\ idx' = 1
    /\ pc' = "setsockopt"
    /\ UNCHANGED <<args, env, sock, iterator, message, stdin, stdout, inq,
                   delivered, recvd, sent, cause, exc, exit_status>>

\* lines 290-291: one pass of the for loop over sock_opts
SetSockopt ==
    /\ pc = "setsockopt"
    /\ idx <= Len(sock_opts)
    /\ sock' = [sock EXCEPT !.options = Append(@, sock_opts[idx])]
    /\ idx' = idx + 1
    /\ UNCHANGED <<args, env, pc, sock_opts, iterator, message, stdin, stdout,
                   inq, delivered, recvd, sent, cause, exc, exit_status>>

\* lines 295-298, reached when the for loop is over
ImplicitSubscribe ==
    /\ pc = "setsockopt"
    /\ idx > Len(sock_opts)
    /\ sock' = IF NeedsImplicitSubscribe(sock.socket_type, sock_opts)
               THEN [sock EXCEPT !.options =
                        Append(@, [code |-> SUBSCRIBE, value |-> EmptyValue])]
               ELSE sock
    /\ idx' = 1
    /\ pc' = "attach"
    /\ UNCHANGED <<args, env, sock_opts, iterator, message, stdin, stdout, inq,
                   delivered, recvd, sent, cause, exc, exit_status>>

\* faulty variant: the addresses are attached in reverse order
Attach_Reversed ==
    /\ pc = "attach"
    /\ idx <= Len(args.addresses)
    /\ sock' = [sock EXCEPT !.endpoints =
                   Append(@, <<args.behavior,
                               args.addresses[Len(args.addresses) + 1 - idx]>>)]
    /\ idx' = idx + 1
    /\ UNCHANGED <<args, env, pc, sock_opts, iterator, message, stdin, stdout,
                   inq, delivered, recvd, sent, cause, exc, exit_status>>

\* lines 301-302: bind or connect to the next address
Attach ==
    /\ pc = "attach"
    /\ idx <= Len(args.addresses)
    /\ sock' = [sock EXCEPT !.endpoints =
                   Append(@, <<args.behavior, args.addresses[idx]>>)]
    /\ idx' = idx + 1
    /\ UNCHANGED <<args, env, pc, sock_opts, iterator, message, stdin, stdout,
                   inq, delivered, recvd, sent, cause, exc, exit_status>>

\* faulty variant: the iterator yields one item too many
MakeIterator_OffByOne(number) ==
    IF number = NoNumber THEN [bounded |-> FALSE, left |-> 0]
    ELSE [bounded |-> TRUE, left |-> number[1] + 1]

\* itertools.repeat(None) / itertools.repeat(None, args.number), lines 306-309
MakeIterator(number) ==
    IF number = NoNumber THEN [bounded |-> FALSE, left |-> 0]
    ELSE [bounded |-> TRUE, left |-> IF number[1] > 0 THEN number[1] ELSE 0]

\* lines 306-319: the iterator is built and the loop of the socket type entered
EnterLoop ==
    /\ pc = "attach"
    /\ idx > Len(args.addresses)
    /\ iterator' = MakeIterator(args.number)
    /\ pc' = "iter"
    /\ UNCHANGED <<args, env, sock, sock_opts, idx, message, stdin, stdout, inq,
                   delivered, recvd, sent, cause, exc, exit_status>>

---------------------------------------------------------------------------
(* The message-exchange loops and their two primitives. *)

\* the branch of lines 312-319
LoopShape(a) ==
    IF a.sock_type = "REQ" THEN "req_loop"
    ELSE IF a.sock_type = "REP" THEN "rep_loop"
    ELSE IF a.mode = "r" THEN "read_loop"
    ELSE "write_loop"

\* first blocking call of the first primitive of the loop body
FirstStep(shape) == IF shape \in {"req_loop", "write_loop"} THEN "in" ELSE "recv"

\* faulty variant: req_loop does not read the reply
AfterWrite_NoReply(shape) == "iter"

\* where control goes when write() returns
AfterWrite(shape) == IF shape = "req_loop" THEN "mid" ELSE "iter"

\* faulty variant: rep_loop does not write the reply
AfterRead_NoReply(shape) == "iter"

\* where control goes when read() returns
AfterRead(shape) == IF shape = "rep_loop" THEN "mid" ELSE "iter"

\* first blocking call of the second primitive of req_loop / rep_loop
SecondStep(shape) == IF shape = "req_loop" THEN "recv" ELSE "in"

\* faulty variant: read() has no clause for IOError
read_except_NoEpipe(event) ==
    IF event = "KeyboardInterrupt" THEN "StopIteration" ELSE event

\* the except clauses of read(): what leaves read() when `event` is raised in it
read_except(event) ==
    IF event \in {"KeyboardInterrupt", "EPIPE"} THEN "StopIteration" ELSE event

\* faulty variant: write() turns every exception into StopIteration
write_except_Any(event) == "StopIteration"

\* the except clause of write()
write_except(event) ==
    IF event \in {"KeyboardInterrupt", "EOFError"} THEN "StopIteration" ELSE event

\* main's try statement: StopIteration is swallowed, anything else propagates
ExitStatus(e) == IF e \in {"None", "StopIteration"} THEN 0 ELSE 1

\* socket types whose recv / send the library supports
CanRecv(t) == t \in {"PULL", "SUB", "REQ", "REP", "PAIR"}
CanSend(t) == t \in {"PUSH", "PUB", "REQ", "REP", "PAIR"}

InRead == {"recv", "out"}
InWrite == {"in", "send"}
LoopPcs == {"iter", "mid"} \cup InRead \cup InWrite

\* faulty variant: only StopIteration passes through the closing of the socket
Raise_SkipFinally(event, e) ==
    /\ cause' = event
    /\ exc' = e
    /\ pc' = IF e = "StopIteration" THEN "close" ELSE "exit"

\* an exception leaves the loop: control reaches main's finally clause
Raise(event, e) ==
    /\ cause' = event
    /\ exc' = e
    /\ pc' = "close"

\* `for _ in iterator`: the iterator yields one more item
NextIteration ==
    /\ pc = "iter"
    /\ ~iterator.bounded \/ iterator.left > 0
    /\ iterator' = IF iterator.bounded
                   THEN [iterator EXCEPT !.left = @ - 1] ELSE iterator
    /\ pc' = FirstStep(LoopShape(args))
    /\ UNCHANGED <<args, env, sock, sock_opts, idx, message, stdin, stdout, inq,
                   delivered, recvd, sent, cause, exc, exit_status>>

\* `for _ in iterator`: the iterator is exhausted, the loop function returns
Exhausted ==
    /\ pc = "iter"
    /\ iterator.bounded /\ iterator.left = 0
    /\ cause' = "exhausted"
    /\ pc' = "close"
    /\ UNCHANGED <<args, env, sock, sock_opts, idx, iterator, message, stdin,
                   stdout, inq, delivered, recvd, sent, exc, exit_status>>

\* between the two primitives of req_loop / rep_loop
SecondPrimitive ==
    /\ pc = "mid"
    /\ pc' = SecondStep(LoopShape(args))
    /\ UNCHANGED <<args, env, sock, sock_opts, idx, iterator, message, stdin,
                   stdout, inq, delivered, recvd, sent, cause, exc, exit_status>>

\* line 363: sock.recv() returns a message
Recv ==
    /\ pc = "recv"
    /\ CanRecv(args.sock_type)
    /\ inq # <<>>
    /\ message' = Head(inq)
    /\ inq' = Tail(inq)
    /\ recvd' = Append(recvd, Head(inq))
    /\ pc' = "out"
    /\ UNCHANGED <<args, env, sock, sock_opts, idx, iterator, stdin, stdout,
                   delivered, sent, cause, exc, exit_status>>

\* line 363: sock.recv() raises
RecvFails ==
    /\ pc = "recv"
    /\ Raise("ZMQError", read_except("ZMQError"))
    /\ UNCHANGED <<args, env, sock, sock_opts, idx, iterator, message, stdin,
                   stdout, inq, delivered, recvd, sent, exit_status>>

\* lines 364-365: the message and the delimiter are written and flushed
WriteOut ==
    /\ pc = "out"
    /\ stdout' = stdout \o Framed(message, args.delimiter)
    /\ message' = <<>>
    /\ pc' = AfterRead(LoopShape(args))
    /\ UNCHANGED <<args, env, sock, sock_opts, idx, iterator, stdin, inq,
                   delivered, recvd, sent, cause, exc, exit_status>>

\* lines 364-371: write or flush raises IOError, with errno EPIPE or another
WriteOutFails ==
    /\ pc = "out"
    /\ \E event \in {"EPIPE", "IOError"} : Raise(event, read_except(event))
    /\ UNCHANGED <<args, env, sock, sock_opts, idx, iterator, message, stdin,
                   stdout, inq, delivered, recvd, sent, exit_status>>

\* line 378: read_until_delimiter returns a record
ReadIn ==
    /\ pc = "in"
    /\ ~read_until_delimiter(stdin, args.delimiter).eof
    /\ message' = read_until_delimiter(stdin, args.delimiter).output
    /\ stdin' = read_until_delimiter(stdin, args.delimiter).rest
    /\ pc' = "send"
    /\ UNCHANGED <<args, env, sock, sock_opts, idx, iterator, stdout, inq,
                   delivered, recvd, sent, cause, exc, exit_status>>

\* line 378: read_until_delimiter raises EOFError
EndOfInput ==
    /\ pc = "in"
    /\ read_until_delimiter(stdin, args.delimiter).eof
    /\ Raise("EOFError", write_except("EOFError"))
    /\ UNCHANGED <<args, env, sock, sock_opts, idx, iterator, message, stdin,
                   stdout, inq, delivered, recvd, sent, exit_status>>

\* line 378: stream.read raises IOError
ReadInFails ==
    /\ pc = "in"
    /\ Raise("IOError", write_except("IOError"))
    /\ UNCHANGED <<args, env, sock, sock_opts, idx, iterator, message, stdin,
                   stdout, inq, delivered, recvd, sent, exit_status>>

\* line 379: sock.send(message) returns
Send ==
    /\ pc = "send"
    /\ CanSend(args.sock_type)
    /\ sent' = Append(sent, message)
    /\ message' = <<>>
    /\ pc' = AfterWrite(LoopShape(args))
    /\ UNCHANGED <<args, env, sock, sock_opts, idx, iterator, stdin, stdout, inq,
                   delivered, recvd, cause, exc, exit_status>>

\* line 379: sock.send raises
SendFails ==
    /\ pc = "send"
    /\ Raise("ZMQError", write_except("ZMQError"))
    /\ UNCHANGED <<args, env, sock, sock_opts, idx, iterator, message, stdin,
                   stdout, inq, delivered, recvd, sent, exit_status>>

\* what leaves the loop when SIGINT raises KeyboardInterrupt at position p:
\* inside the try of read() or write() the except clause sees it, at the
\* for statement and between the two primitives nothing does
InterruptAt(p) ==
    IF p \in InRead THEN read_except("KeyboardInterrupt")
    ELSE IF p \in InWrite THEN write_except("KeyboardInterrupt")
    ELSE "KeyboardInterrupt"

\* the interrupt signal arrives while the loop runs
Interrupt ==
    /\ pc \in LoopPcs
    /\ Raise("KeyboardInterrupt", InterruptAt(pc))
    /\ UNCHANGED <<args, env, sock, sock_opts, idx, iterator, message, stdin,
                   stdout, inq, delivered, recvd, sent, exit_status>>

\* lines 320-326: the finally clause closes the socket, main returns or the
\* exception ends the process
Close ==
    /\ pc = "close"
    /\ sock' = [sock EXCEPT !.state = "closed", !.closes = @ + 1]
    /\ exit_status' = ExitStatus(exc)
    /\ pc' = "exit"
    /\ UNCHANGED <<args, env, sock_opts, idx, iterator, message, stdin, stdout,
                   inq, delivered, recvd, sent, cause, exc>>

---------------------------------------------------------------------------
(* The peer and the library: messages reaching the socket. *)

\* the prefixes the socket is subscribed to
Subscriptions(options) ==
    {options[i].value.str : i \in {j \in 1..Len(options) : options[j].code = SUBSCRIBE}}

\* whether the library queues message m for recv on this socket
Accepts(s, m) ==
    s.socket_type # SUB \/ \E p \in Subscriptions(s.options) : IsPrefix(p, m)

\* whether the peer may send its next message now: a REQ socket gets a reply
\* only to a request it has sent
PeerMaySend ==
    /\ sock.state = "open"
    /\ Len(sock.endpoints) = Len(args.addresses)
    /\ CanRecv(args.sock_type)
    /\ delivered < Len(env.published)
    /\ args.sock_type = "REQ" => delivered < Len(sent)

\* the peer's next message reaches the socket, or is filtered out
Deliver ==
    /\ pc \in LoopPcs
    /\ PeerMaySend
    /\ delivered' = delivered + 1
    /\ inq' = IF Accepts(sock, env.published[delivered + 1])
              THEN Append(inq, env.published[delivered + 1]) ELSE inq
    /\ UNCHANGED <<args, env, pc, sock, sock_opts, idx, iterator, message, stdin,
                   stdout, recvd, sent, cause, exc, exit_status>>

Next ==
    \/ Reject
    \/ CreateSocket
    \/ SockoptsError
    \/ SockoptsOk
    \/ SetSockopt
    \/ ImplicitSubscribe
    \/ Attach
    \/ EnterLoop
    \/ NextIteration
    \/ Exhausted
    \/ SecondPrimitive
    \/ Recv
    \/ RecvFails
    \/ WriteOut
    \/ WriteOutFails
    \/ ReadIn
    \/ EndOfInput
    \/ ReadInFails
    \/ Send
    \/ SendFails
    \/ Interrupt
    \/ Close
    \/ Deliver

Spec == Init /\ [][Next]_vars

---------------------------------------------------------------------------
(* The option translator on its own: main() from parse_args to the last     *)
(* bind/connect, on command lines with a wider choice of option strings.    *)

\* option strings: names with no, one and two ZMQ_ prefixes, resolved and
\* not, integer-typed, string-typed and untyped, values of every shape
TranslatorOpts ==
    { <<"LINGER", "=", "0">>,
      <<"LINGER", "=", "-", "1">>,
      <<"LINGER", "=", "1", "2">>,
      <<"LINGER", "=", "+", "3">>,
      <<"LINGER", "=", "0", "7">>,
      <<"LINGER", "=", " ", "5">>,
      <<"LINGER", "=", "1", "x">>,
      <<"LINGER", "=">>,
      <<"ZMQ_", "LINGER", "=", "7">>,
      <<"ZMQ_", "ZMQ_", "LINGER", "=", "7">>,
      <<"NOPE", "=", "a">>,
      <<"SUBSCRIBE", "=">>,
      <<"SUBSCRIBE", "=", "a", "=", "b">>,
      <<"SUBSCRIBE", "=", "1">>,
      <<"ZMQ_", "SUBSCRIBE", "=", "a">>,
      <<"SUB", "=", "a">>,
      <<"LINGER">> }

TranslatorRuns ==
    { [args |-> [sock_type |-> t, mode |-> "r", behavior |-> b,
                 delimiter |-> LF, number |-> NoNumber, sock_opts |-> o,
                 addresses |-> <<"tcp://a">>],
       env |-> NoSurroundings] :
      t \in {"SUB", "PULL"}, b \in {"bind", "connect"},
      o \in SeqsUpTo(TranslatorOpts, MaxOpts) }

InitOptions ==
    /\ \E r \in TranslatorRuns : args = r.args /\ env = r.env
    /\ pc = "main"
    /\ sock = NoSocket
    /\ sock_opts = <<>>
    /\ idx = 0
    /\ iterator = [bounded |-> FALSE, left |-> 0]
    /\ message = <<>>
    /\ stdin = env.stdin
    /\ stdout = <<>>
    /\ inq = <<>>
    /\ delivered = 0
    /\ recvd = <<>>
    /\ sent = <<>>
    /\ cause = "none"
    /\ exc = "None"
    /\ exit_status = -1

NextOptions ==
    \/ CreateSocket
    \/ SockoptsError
    \/ SockoptsOk
    \/ SetSockopt
    \/ ImplicitSubscribe
    \/ Attach

SpecOptions == InitOptions /\ [][NextOptions]_vars

TypeOK ==
    /\ pc \in {"main", "get_sockopts", "setsockopt", "attach", "close", "exit"} \cup LoopPcs
    /\ sock.state \in {"none", "open", "closed"}
    /\ exit_status \in {-1, 0, 1, 2}
    /\ delivered \in 0..Len(env.published)

---------------------------------------------------------------------------
(* Vocabulary of the properties, stated without the operators of the model. *)

Take(s, k) == SubSeq(s, 1, k)

\* the text of a sequence of messages, each followed by one delimiter
RECURSIVE FramedAll(_, _)
FramedAll(ms, d) ==
    IF ms = <<>> THEN <<>> ELSE Head(ms) \o <<d>> \o FramedAll(Tail(ms), d)

\* positions of the delimiter in a text, and the k-th of them
DelimPos(s, d) == {i \in 1..Len(s) : s[i] = d}
KthDelim(s, d, k) ==
    CHOOSE i \in DelimPos(s, d) : Cardinality({j \in DelimPos(s, d) : j <= i}) = k

\* number of records of a text: one per delimiter, one more for a non-empty
\* unterminated rest
NumRecords(s, d) ==
    Cardinality(DelimPos(s, d)) + (IF s # <<>> /\ s[Len(s)] # d THEN 1 ELSE 0)

\* the text split at each delimiter occurrence
Split(s, d) ==
    [k \in 1..NumRecords(s, d) |->
        SubSeq(s,
               IF k = 1 THEN 1 ELSE KthDelim(s, d, k - 1) + 1,
               IF k <= Cardinality(DelimPos(s, d)) THEN KthDelim(s, d, k) - 1
               ELSE Len(s))]

\* events that are neither clean termination nor exhaustion of the input
Faults == {"KeyboardInterrupt", "EPIPE", "IOError", "ZMQError"}

\* the message-exchange loop has been entered
Running == pc \in LoopPcs \cup {"close"} \/ (pc = "exit" /\ cause # "usage")

---------------------------------------------------------------------------
(* C1: with -n K in read mode or write mode, never more than K messages are
   received (sent); at a loop boundary after K messages the iterator is
   exhausted, so the loop ends there; and a run that ends without an
   interrupt or I/O failure, K records being available on standard input in
   write mode, has processed exactly K messages, has written each received
   message, exits with status 0 and has closed the socket. *)
C1_ExactlyK ==
    (/\ UsageError(args) = ""
     /\ args.number # NoNumber
     /\ LoopShape(args) \in {"read_loop", "write_loop"})
    => LET K == args.number[1]
           reads == LoopShape(args) = "read_loop"
           n == IF reads THEN Len(recvd) ELSE Len(sent)
       IN  /\ n <= K
           /\ Len(recvd) + Len(sent) = n
           /\ pc = "iter" => iterator.left = K - n
           /\ (pc = "iter" /\ n = K) => ~ENABLED NextIteration
           /\ (/\ pc = "exit"
               /\ cause \notin Faults
               /\ reads \/ NumRecords(env.stdin, args.delimiter) >= K)
              => /\ n = K
                 /\ cause = "exhausted"
                 /\ reads => stdout = FramedAll(recvd, args.delimiter)
                 /\ exit_status = 0
                 /\ sock.state = "closed"

\* a read run with -n 1 has ended after one message while another one waits
C1_Witness ==
    /\ LoopShape(args) = "read_loop"
    /\ args.number = <<1>>
    /\ pc = "exit"
    /\ cause = "exhausted"
    /\ Len(recvd) = 1
    /\ inq # <<>>

---------------------------------------------------------------------------
(* C2: in every loop shape, end of input and a broken output pipe leave the
   loop as StopIteration: control is in main's finally clause or past it,
   the process ends with status 0 and the socket closed once, and from the
   moment either has happened nothing more is sent or received. *)
C2_CleanEnd ==
    /\ [](cause \in {"EOFError", "EPIPE"}
           => /\ exc = "StopIteration"
              /\ pc \in {"close", "exit"}
              /\ pc = "exit" => /\ exit_status = 0
                                /\ sock.state = "closed"
                                /\ sock.closes = 1)
    /\ [][(cause \in {"EOFError", "EPIPE"}) => UNCHANGED <<sent, recvd>>]_vars

\* a reply loop has ended on a broken pipe after receiving a request
C2_Witness ==
    /\ LoopShape(args) = "rep_loop"
    /\ cause = "EPIPE"
    /\ pc = "exit"
    /\ Len(recvd) = 1
    /\ inq # <<>>

(* C3: an interrupt delivered at any point of the message-exchange loop ends
   the process with status 0 and the socket closed. *)
C3_InterruptClean ==
    (cause = "KeyboardInterrupt" /\ pc = "exit")
    => exit_status = 0 /\ sock.state = "closed"

(* C4: a run that ends with an option-assignment error has created no
   socket. *)
C4_NoSocketOnOptionError ==
    (pc = "exit" /\ cause = "usage" /\ get_sockopts(args.sock_opts).error # "")
    => sock.state = "none"

\* the legal combinations of socket type, mode and behavior
Accepted(a) ==
    /\ a.behavior # "None"
    /\ \/ a.sock_type \in {"REQ", "REP"} /\ a.mode = "None"
       \/ /\ a.sock_type \notin {"REQ", "REP"}
          /\ a.mode \in {"r", "w"}
          /\ ~(a.sock_type = "SUB" /\ a.mode = "w")
          /\ ~(a.sock_type = "PUB" /\ a.mode = "r")

(* C5: once validation is over, a socket has been created if and only if the
   combination of type, mode and behavior is legal; an illegal combination
   ends in a usage error with status 2 and no socket created, configured,
   bound or connected. *)
C5_AcceptanceMatrix ==
    pc # "main"
    => /\ sock.state # "none" <=> Accepted(args)
       /\ ~Accepted(args) => /\ pc = "exit"
                             /\ cause = "usage"
                             /\ exit_status = 2
                             /\ sock = NoSocket

\* a PUB socket in write mode has been created
C5_Witness ==
    /\ args.sock_type = "PUB"
    /\ args.mode = "w"
    /\ args.behavior = "bind"
    /\ sock.state = "open"
    /\ sock.endpoints # <<>>

---------------------------------------------------------------------------
\* whether an option string resolves to the SUBSCRIBE code
IsSubscribeOpt(option) ==
    TranslateOne(option).error = "" /\ TranslateOne(option).option.code = 6

\* the explicit subscribe prefixes of a command line
ExplicitPrefixes(a) ==
    {TranslateOne(a.sock_opts[i]).option.value.str :
        i \in {j \in 1..Len(a.sock_opts) : IsSubscribeOpt(a.sock_opts[j])}}

\* the option "subscribe to everything"
SubscribeAll == [code |-> 6, value |-> [type |-> "str", int |-> 0, str |-> <<>>]]

(* C6: while the explicit options are being set, the socket holds exactly
   those applied so far and has no endpoint; once they are all set (the option
   list being valid), the options of the socket are the explicit options
   followed by one implicit SUBSCRIBE '' exactly when the type is SUB and no
   given option resolves to the SUBSCRIBE code, and by nothing otherwise; this
   is so before the first bind/connect and never changes afterwards. *)
C6_ImplicitSubscribe ==
    /\ pc \in {"main", "get_sockopts", "setsockopt"}
       => /\ sock.endpoints = <<>>
          /\ sock.options = Take(sock_opts, Len(sock.options))
    /\ (pc = "exit" /\ cause = "usage") => sock.options = <<>>
    /\ (pc \notin {"main", "get_sockopts", "setsockopt"} /\ cause # "usage")
       => sock.options =
             sock_opts \o
             (IF /\ args.sock_type = "SUB"
                 /\ \A i \in 1..Len(args.sock_opts) : ~IsSubscribeOpt(args.sock_opts[i])
              THEN <<SubscribeAll>> ELSE <<>>)

\* a SUB socket given only a LINGER option is attached with the implicit
\* subscription set after it
C6_Witness ==
    /\ args.sock_type = "SUB"
    /\ args.sock_opts = << <<"LINGER", "=", "-", "1">> >>
    /\ Len(sock.options) = 2
    /\ sock.options[2] = SubscribeAll
    /\ sock.endpoints # <<>>

\* the messages of ms that start with one of the prefixes
RECURSIVE Matching(_, _)
Matching(ms, prefixes) ==
    IF ms = <<>> THEN <<>>
    ELSE (IF \E p \in prefixes : IsPrefix(p, Head(ms)) THEN <<Head(ms)>> ELSE <<>>)
         \o Matching(Tail(ms), prefixes)

(* C7: a SUB socket in read mode with at least one explicit subscribe option:
   standard output is always the framed text of an initial part of the
   published messages that start with one of the prefixes, in order; and when
   every published message has reached the socket and the loop waits for the
   next one, it is the framed text of all of them. *)
C7_PrefixFilter ==
    (/\ Running
     /\ args.sock_type = "SUB"
     /\ ExplicitPrefixes(args) # {})
    => LET want == Matching(env.published, ExplicitPrefixes(args))
       IN  /\ \E k \in 0..Len(want) :
                 stdout = FramedAll(Take(want, k), args.delimiter)
           /\ (pc = "recv" /\ inq = <<>> /\ delivered = Len(env.published))
              => stdout = FramedAll(want, args.delimiter)

\* of two published messages the first is filtered out, the second is output
C7_Witness ==
    /\ args.sock_type = "SUB"
    /\ args.sock_opts = << <<"SUBSCRIBE", "=", "a">> >>
    /\ env.published = << <<"b">>, <<"a", "b">> >>
    /\ pc = "recv"
    /\ delivered = 2
    /\ inq = <<>>
    /\ stdout = <<"a", "b", args.delimiter>>

(* C8, as stated: in read mode, outside the moment between a receive and the
   write of its message, standard output is the framed text of all messages
   received so far. *)
C8_OutputIsAllReceived ==
    (Running /\ LoopShape(args) = "read_loop" /\ pc # "out")
    => stdout = FramedAll(recvd, args.delimiter)

(* C8, amended: in read mode standard output is the framed text of the
   messages received so far, except that the last received message is missing
   while its write is pending, and stays missing when that write was cut
   short by a broken pipe, an interrupt or an I/O error; whenever a receive is
   about to start, every received message has been written. *)
C8_OutputFollowsReceived ==
    (Running /\ LoopShape(args) = "read_loop")
    => /\ \/ stdout = FramedAll(recvd, args.delimiter)
          \/ /\ recvd # <<>>
             /\ stdout = FramedAll(Take(recvd, Len(recvd) - 1), args.delimiter)
             /\ \/ pc = "out"
                \/ /\ pc \in {"close", "exit"}
                   /\ cause \in {"EPIPE", "KeyboardInterrupt", "IOError"}
       /\ pc \in {"iter", "recv"} => stdout = FramedAll(recvd, args.delimiter)
       /\ cause \in {"none", "exhausted", "ZMQError"}
          => pc = "out" \/ stdout = FramedAll(recvd, args.delimiter)

\* the second of two received messages was lost to a broken pipe
C8_Witness ==
    /\ LoopShape(args) = "read_loop"
    /\ cause = "EPIPE"
    /\ pc = "exit"
    /\ recvd = << <<"a">>, <<"b">> >>
    /\ stdout = <<"a", args.delimiter>>

(* C9: in write mode without -n, on a socket that can send, the messages sent
   are always an initial part of the input split at each delimiter, none
   contains the delimiter, and the loop is left, unless by an interrupt or an
   I/O failure, only on a read of zero characters at end of stream, with the
   whole split input sent. *)
C9_SentIsSplitInput ==
    (/\ Running
     /\ LoopShape(args) = "write_loop"
     /\ args.number = NoNumber)
    => LET want == Split(env.stdin, args.delimiter)
       IN  /\ Len(sent) <= Len(want) /\ sent = Take(want, Len(sent))
           /\ \A i \in 1..Len(sent) : \A j \in 1..Len(sent[i]) :
                 sent[i][j] # args.delimiter
           /\ (pc \in {"close", "exit"} /\ cause \notin Faults)
              => /\ cause = "EOFError"
                 /\ stdin = <<>>
                 /\ sent = want
           /\ (pc = "in" /\ Len(sent) = Len(want)) => ENABLED EndOfInput
           /\ (pc = "in" /\ Len(sent) < Len(want)) => ~ENABLED EndOfInput

\* two empty records and an unterminated last record were sent
C9_Witness ==
    /\ LoopShape(args) = "write_loop"
    /\ args.number = NoNumber
    /\ env.stdin = <<args.delimiter, args.delimiter, "a">>
    /\ sent = << <<>>, <<>>, <<"a">> >>
    /\ cause = "EOFError"
    /\ pc = "exit"
    /\ exit_status = 0

(* C10: a REQ socket that leaves its loop on end of input or on exhaustion of
   the count has received a reply to every request it sent; the requests are
   the first records of the input in order, the replies are the peer's in
   order, each is on standard output followed by the delimiter, and the exit
   status is 0; on end of input all N records were sent. *)
C10_RequestReply ==
    (/\ Running
     /\ LoopShape(args) = "req_loop"
     /\ cause \in {"EOFError", "exhausted"})
    => LET want == Split(env.stdin, args.delimiter)
       IN  /\ Len(sent) = Len(recvd)
           /\ Len(sent) <= Len(want) /\ sent = Take(want, Len(sent))
           /\ recvd = Take(env.published, Len(sent))
           /\ stdout = FramedAll(recvd, args.delimiter)
           /\ cause = "EOFError" => sent = want
           /\ cause = "exhausted" => Len(sent) = args.number[1]
           /\ pc = "exit" => exit_status = 0 /\ sock.state = "closed"

\* two requests were sent and answered, then the input ended
C10_Witness ==
    /\ LoopShape(args) = "req_loop"
    /\ cause = "EOFError"
    /\ pc = "exit"
    /\ Len(sent) = 2
    /\ Len(recvd) = 2
    /\ exit_status = 0

---------------------------------------------------------------------------
(* Claims about the option translator, checked under SpecOptions. *)

\* get_sockopts has run: its list was returned or its error reported
Translated == pc \in {"setsockopt", "attach"} \/ (pc = "exit" /\ cause = "usage")

\* every option string has the form NAME=VALUE
AllNameValue(opts) == \A i \in 1..Len(opts) : ReMatch(opts[i]).matched

\* the option strings with ZMQ_ written in front of each name
Prefixed(opts) == [i \in 1..Len(opts) |-> <<"ZMQ_">> \o opts[i]]

\* the name of the option string begins with ZMQ_ / with ZMQ_ZMQ_
NamePrefixed(option) == option # <<>> /\ Head(option) = "ZMQ_"
NameTwicePrefixed(option) ==
    Len(option) >= 2 /\ option[1] = "ZMQ_" /\ option[2] = "ZMQ_"

\* the outcome of this run is the outcome get_sockopts has for opts
SameOutcomeAs(opts) ==
    LET r == get_sockopts(opts)
    IN  /\ (cause = "usage") <=> (r.error # "")
        /\ r.error = get_sockopts(args.sock_opts).error
        /\ cause # "usage" => sock_opts = r.options

(* C11 as stated: for every NAME of uppercase letters and underscores and
   every VALUE, ZMQ_NAME=VALUE is translated to the same outcome as
   NAME=VALUE: the same code and typed value, or the same kind of error. *)
C11_PrefixEquivalent ==
    (Translated /\ AllNameValue(args.sock_opts))
    => SameOutcomeAs(Prefixed(args.sock_opts))

(* C11 amended: for every NAME that does not itself begin with ZMQ_, and
   every VALUE, ZMQ_NAME=VALUE is translated to the same outcome as
   NAME=VALUE; the prefix is removed once only, so an option whose name
   begins with ZMQ_ZMQ_ is looked up with one ZMQ_ left and the run ends in
   a usage error. *)
C11_PrefixEquivalentOnce ==
    /\ (/\ Translated
        /\ AllNameValue(args.sock_opts)
        /\ \A i \in 1..Len(args.sock_opts) : ~NamePrefixed(args.sock_opts[i]))
       => SameOutcomeAs(Prefixed(args.sock_opts))
    /\ (/\ Translated
        /\ \E i \in 1..Len(args.sock_opts) : NameTwicePrefixed(args.sock_opts[i]))
       => cause = "usage"

\* LINGER=-1 and SUBSCRIBE= were translated as ZMQ_LINGER=-1 and
\* ZMQ_SUBSCRIBE= are, to (17, -1) and (6, '')
C11_Witness ==
    /\ pc = "attach"
    /\ args.sock_opts = << <<"LINGER", "=", "-", "1">>, <<"SUBSCRIBE", "=">> >>
    /\ sock_opts = get_sockopts(Prefixed(args.sock_opts)).options
    /\ Len(sock_opts) = 2
    /\ sock_opts[1].code = 17 /\ sock_opts[1].value.int = -1
    /\ sock_opts[2].code = 6 /\ sock_opts[2].value.str = <<>>

\* the value text and the resolved code of an option string NAME=VALUE
OptValue(option) == ReMatch(option).value
OptCode(option) == Resolve(StripPrefix(ReMatch(option).name))

\* every option string has the form NAME=VALUE and its name resolves
WellNamed(opts) ==
    \A i \in 1..Len(opts) : ReMatch(opts[i]).matched /\ OptCode(opts[i]) # 0

\* text of the form [+-]?[0-9]+
IsSignedDecimal(v) ==
    LET ds == IF v # <<>> /\ Head(v) \in {"+", "-"} THEN Tail(v) ELSE v
    IN  ds # <<>> /\ \A i \in 1..Len(ds) : ds[i] \in Digits

\* v without the blanks around it
Trim(v) ==
    LET nb == {i \in 1..Len(v) : v[i] # " "}
    IN  IF nb = {} THEN <<>>
        ELSE SubSeq(v, CHOOSE i \in nb : \A j \in nb : i <= j,
                       CHOOSE i \in nb : \A j \in nb : i >= j)

\* the decimal text of the integer n
DigitChar(d) == <<"0", "1", "2", "3", "4", "5", "6", "7", "8", "9">>[d + 1]
RECURSIVE NatText(_)
NatText(n) ==
    IF n < 10 THEN <<DigitChar(n)>> ELSE Append(NatText(n \div 10), DigitChar(n % 10))
DecimalText(n) == IF n < 0 THEN <<"-">> \o NatText(0 - n) ELSE NatText(n)

\* a signed decimal without the plus sign, leading zeros and minus zero
RECURSIVE DropZeros(_)
DropZeros(ds) == IF Len(ds) > 1 /\ Head(ds) = "0" THEN DropZeros(Tail(ds)) ELSE ds
Canon(v) ==
    LET z == DropZeros(IF Head(v) \in {"+", "-"} THEN Tail(v) ELSE v)
    IN  IF Head(v) = "-" /\ z # <<"0">> THEN <<"-">> \o z ELSE z

\* the value of an integer-typed option as the rule reads it
ValueText(v, trimmed) == IF trimmed THEN Trim(v) ELSE v

\* on runs whose option names all resolve: the run is refused, with an
\* invalid-value error, exactly when an integer-typed option has a value that
\* is not a signed decimal; otherwise every integer-typed option carries the
\* integer its text denotes and every string-typed option its text
TypedValues(trimmed) ==
    (Translated /\ WellNamed(args.sock_opts))
    => LET o == args.sock_opts
           bad(i) == /\ OptCode(o[i]) \in int_sockopts
                     /\ ~IsSignedDecimal(ValueText(OptValue(o[i]), trimmed))
       IN  /\ (cause = "usage") <=> (\E i \in 1..Len(o) : bad(i))
           /\ cause = "usage"
              => get_sockopts(o).error = "Invalid value for option"
           /\ cause # "usage"
              => /\ Len(sock_opts) = Len(o)
                 /\ \A i \in 1..Len(o) :
                      /\ sock_opts[i].code = OptCode(o[i])
                      /\ OptCode(o[i]) \in int_sockopts
                         => /\ sock_opts[i].value.type = "int"
                            /\ DecimalText(sock_opts[i].value.int)
                               = Canon(ValueText(OptValue(o[i]), trimmed))
                      /\ OptCode(o[i]) \in bytes_sockopts
                         => /\ sock_opts[i].value.type = "str"
                            /\ sock_opts[i].value.str = OptValue(o[i])

(* C12 as stated: for an integer-typed code a value that is not a signed
   decimal integer is rejected with an invalid-value error and the decimal
   text of n is translated to n; for a string-typed code the value text is
   passed through unchanged. *)
C12_TypedValues == TypedValues(FALSE)

(* C12 amended: for an integer-typed code a value that, with the blanks
   around it removed, is not a signed decimal integer is rejected with an
   invalid-value error, and a value that is one is translated to the integer
   it denotes; for a string-typed code the value text is passed through
   unchanged. *)
C12_TypedValuesTrimmed == TypedValues(TRUE)

\* LINGER=12 became the integer 12 and SUBSCRIBE=a=b the string a=b
C12_Witness ==
    /\ pc = "attach"
    /\ args.sock_opts = << <<"LINGER", "=", "1", "2">>,
                           <<"SUBSCRIBE", "=", "a", "=", "b">> >>
    /\ sock_opts[1] = [code |-> 17, value |-> [type |-> "int", int |-> 12, str |-> <<>>]]
    /\ sock_opts[2].value.type = "str"
    /\ sock_opts[2].value.str = <<"a", "=", "b">>

---------------------------------------------------------------------------
(* Claims about the way out of the loop, checked under Spec. *)

\* I/O errors that are not a clean end: IOError stands for an error of
\* standard output other than EPIPE or of standard input, ZMQError for an
\* error of sock.send or sock.recv
HardErrors == {"IOError", "ZMQError"}

(* C13: an I/O error that is not a clean end (an error on standard output
   other than a broken pipe, an error reading standard input, an error of
   send or receive) is not swallowed or retried: it propagates as it is, the
   process is past the loop from then on, and it ends with the socket closed
   and a status that is not 0. *)
C13_ErrorsPropagate ==
    cause \in HardErrors
    => /\ exc = cause
       /\ pc \in {"close", "exit"}
       /\ pc = "close" => exit_status = -1
       /\ pc = "exit" => exit_status > 0 /\ sock.state = "closed"

\* the second send failed: one message sent, status 1
C13_Witness ==
    /\ cause = "ZMQError"
    /\ LoopShape(args) = "write_loop"
    /\ pc = "exit"
    /\ Len(sent) = 1
    /\ exit_status = 1

\* the numbers of sock.send and sock.recv calls that returned
Sends == Len(sent)
Receives == Len(recvd)

\* iterations the for statement has started
Started == args.number[1] - iterator.left

(* C14: in req_loop sends and receives alternate, starting with a send, and
   in rep_loop they alternate starting with a receive: a send is made only
   when as many receives as sends are done (REQ) or one more (REP), a receive
   only when one more send than receives is done (REQ) or as many (REP); the
   counts are equal whenever an iteration is complete, differ by at most 1
   always, and with -n K neither exceeds K. *)
C14_Alternation ==
    /\ (Running /\ LoopShape(args) = "req_loop")
       => /\ Receives <= Sends /\ Sends <= Receives + 1
          /\ pc \in {"iter", "in", "send"} => Sends = Receives
          /\ pc \in {"mid", "recv"} => Sends = Receives + 1
          /\ pc = "out" => Sends = Receives
    /\ (Running /\ LoopShape(args) = "rep_loop")
       => /\ Sends <= Receives /\ Receives <= Sends + 1
          /\ pc \in {"iter", "recv"} => Receives = Sends
          /\ pc \in {"out", "mid", "in", "send"} => Receives = Sends + 1
    /\ (Running /\ LoopShape(args) \in {"req_loop", "rep_loop"} /\ iterator.bounded)
       => /\ Sends <= args.number[1] /\ Receives <= args.number[1]
          /\ Started <= args.number[1]
          /\ pc = "iter" => Sends = Started /\ Receives = Started
          /\ pc \in LoopPcs => Sends <= Started /\ Receives <= Started

\* a REP socket about to send its second reply: two receives, one send
C14_Witness ==
    /\ LoopShape(args) = "rep_loop"
    /\ pc = "send"
    /\ Receives = 2
    /\ Sends = 1
    /\ iterator.bounded /\ args.number[1] = 2 /\ iterator.left = 0

\* the option assignment is typed by option_coerce: an integer-typed code
\* with an integer, or a string-typed code with a string
TypedByClassification(o) ==
    \/ o.code \in int_sockopts /\ o.value.type = "int"
    \/ o.code \in bytes_sockopts /\ o.value.type = "str"

(* C15: every option assignment the translator returns, and every one that
   is applied to the socket, has a code of the integer-typed set with an
   integer value or a code of the string-typed set with a string value; a
   name that resolves to a constant in neither set is not returned or
   applied. *)
C15_OnlyClassifiedOptions ==
    /\ \A i \in 1..Len(sock_opts) : TypedByClassification(sock_opts[i])
    /\ \A i \in 1..Len(sock.options) : TypedByClassification(sock.options[i])

---------------------------------------------------------------------------
(* Claims about the life of the socket, checked under Spec. *)

\* the command line is one whose run reaches the message exchange
ReachesExchange ==
    UsageError(args) = "" /\ get_sockopts(args.sock_opts).error = ""

\* the option assignments of the command line in order, followed by the
\* implicit subscription where main adds one
ExpectedOptions ==
    LET given == get_sockopts(args.sock_opts).options
    IN  IF NeedsImplicitSubscribe(SocketTypeCode(args.sock_type), given)
        THEN Append(given, [code |-> SUBSCRIBE, value |-> EmptyValue])
        ELSE given

\* the addresses of the command line in order, with the chosen behavior
ExpectedEndpoints ==
    [i \in 1..Len(args.addresses) |-> <<args.behavior, args.addresses[i]>>]

\* a send or a receive has been made or is being made
Exchanging == sent # <<>> \/ recvd # <<>> \/ pc \in LoopPcs

(* C16: a run that reaches the message exchange goes through its stages in
   order: the socket is created, the options are applied in command-line
   order, the socket is bound or connected to each address in order, and
   only then messages are sent or received; the socket is closed after the
   last send or receive and before the process ends.  No option is set once
   an address is attached, no message is exchanged before the last address
   is attached, and nothing is done with a closed socket. *)
C16_LifecycleOrder ==
    ReachesExchange
    => /\ sock.state = "none"
          => sock.options = <<>> /\ sock.endpoints = <<>> /\ ~Exchanging
       /\ IsPrefix(sock.options, ExpectedOptions)
       /\ IsPrefix(sock.endpoints, ExpectedEndpoints)
       /\ sock.endpoints # <<>> => sock.options = ExpectedOptions
       /\ Exchanging
          => sock.endpoints = ExpectedEndpoints /\ sock.options = ExpectedOptions
       /\ pc \in LoopPcs => sock.state = "open"
       /\ sock.state = "closed" => pc = "exit" /\ sock.closes = 1
       /\ pc = "exit" => sock.state = "closed"

\* a SUB socket with two options set and one address attached has received
\* a message and is closed
C16_Witness ==
    /\ pc = "exit"
    /\ sock.state = "closed"
    /\ Len(args.sock_opts) = 2
    /\ sock.options = ExpectedOptions
    /\ sock.endpoints = ExpectedEndpoints
    /\ recvd # <<>>

\* the option string is malformed, names no constant or has a bad integer
InvalidOption(option) == TranslateOne(option).error # ""

(* C17: when any of the -o options is invalid, no option at all is set on
   the socket, not even a valid one given in front of the invalid one, the
   socket is not bound or connected, and no message is exchanged. *)
C17_AllOrNothing ==
    (\E i \in 1..Len(args.sock_opts) : InvalidOption(args.sock_opts[i]))
    => /\ sock.options = <<>>
       /\ sock.endpoints = <<>>
       /\ sock_opts = <<>>
       /\ sent = <<>> /\ recvd = <<>> /\ stdout = <<>>
       /\ pc \in {"main", "get_sockopts", "exit"}
       /\ pc = "exit" => cause = "usage"

\* a valid option in front of an invalid one: the run ended with a usage
\* error and nothing was set
C17_Witness ==
    /\ Len(args.sock_opts) = 2
    /\ ~InvalidOption(args.sock_opts[1])
    /\ InvalidOption(args.sock_opts[2])
    /\ UsageError(args) = ""
    /\ pc = "exit"
    /\ cause = "usage"
    /\ sock.options = <<>>

\* the ways out of the loop
WaysOut == {"exhausted", "EOFError", "EPIPE", "KeyboardInterrupt", "IOError", "ZMQError"}

(* C18: once the loop is entered the socket is closed exactly once on every
   way out of it (count exhausted, end of input, broken pipe, interrupt,
   propagating error): it is open while the loop runs and while the way out
   is taken, closed once when the process has ended, and no send or receive
   can be made once it is closed. *)
C18_ClosedExactlyOnce ==
    /\ sock.closes <= 1
    /\ pc \in LoopPcs => sock.state = "open" /\ sock.closes = 0 /\ cause = "none"
    /\ pc = "close" => sock.state = "open" /\ sock.closes = 0 /\ cause \in WaysOut
    /\ (pc = "exit" /\ cause # "usage")
       => sock.state = "closed" /\ sock.closes = 1 /\ cause \in WaysOut
    /\ sock.state = "closed" => ~ENABLED (Send \/ Recv \/ Close)

\* an interrupt at the for statement propagated after a receive: the socket
\* was closed once
C18_Witness ==
    /\ pc = "exit"
    /\ cause = "KeyboardInterrupt"
    /\ exc = "KeyboardInterrupt"
    /\ recvd # <<>>
    /\ sock.state = "closed"
    /\ sock.closes = 1

---------------------------------------------------------------------------
(* Claim about the framing of read_loop and write_loop together. *)

\* no message contains the delimiter
DelimFree(ms, d) == \A i \in 1..Len(ms) : \A j \in 1..Len(ms[i]) : ms[i][j] # d

\* a text with a delimiter added when its last record is not terminated
Terminated(s, d) == IF s = <<>> \/ s[Len(s)] = d THEN s ELSE Append(s, d)

(* C19: for messages M none of which contains the delimiter, the text
   read_loop has written for M, read by write_loop with the same delimiter,
   gives M again: the same number of messages with the same contents in the
   same order.  Conversely the records write_loop sends for an input, written
   by read_loop, give the input again, with a delimiter added when the last
   record of the input was not terminated. *)
C19_FramingRoundTrip ==
    /\ (Running /\ LoopShape(args) = "read_loop" /\ DelimFree(recvd, args.delimiter))
       => /\ write_loop_sends(read_loop_output(recvd, args.delimiter), args.delimiter)
             = recvd
          /\ IsPrefix(write_loop_sends(stdout, args.delimiter), recvd)
          /\ pc \in {"iter", "recv"}
             => write_loop_sends(stdout, args.delimiter) = recvd
    /\ (Running /\ LoopShape(args) = "write_loop")
       => /\ DelimFree(sent, args.delimiter)
          /\ write_loop_sends(read_loop_output(sent, args.delimiter), args.delimiter)
             = sent
          /\ IsPrefix(read_loop_output(sent, args.delimiter),
                      Terminated(env.stdin, args.delimiter))
          /\ cause = "EOFError"
             => read_loop_output(sent, args.delimiter)
                = Terminated(env.stdin, args.delimiter)

\* two messages with newlines in them were written with the NUL delimiter
\* and the text splits into the same two messages
C19_Witness ==
    /\ LoopShape(args) = "read_loop"
    /\ args.delimiter = NUL
    /\ pc = "iter"
    /\ recvd = << <<"a", LF, "b">>, <<LF>> >>
    /\ stdout = <<"a", LF, "b", NUL, LF, NUL>>
    /\ write_loop_sends(stdout, args.delimiter) = recvd

====
